---- MODULE Spec2Model ----
(***************************************************************************)
(* State-machine model of the MQTT hub's publish pipeline:                 *)
(*   - MessageQueue (src/mqtt/MessageQueue.js): the deduplicating,         *)
(*     cancellable queue and its asynchronous drain loop;                  *)
(*   - MQTTHub (src/app.js): the lifecycle start()/stop() around it.       *)
(* JavaScript runs handlers to completion, so one action is the code that  *)
(* runs between two suspension points (await).                             *)
(***************************************************************************)
EXTENDS Integers, Sequences, FiniteSets, TLC

\* ------------------------------------------------------------------ bounds
\* Message objects constructed in one behaviour.
MaxMsgs == 3

\* ------------------------------------------------------------------ inputs
Undefined == "undefined"

\* "" is the falsy topic that add() rejects.
Topics == {"", "a", "b"}

\* opt as passed to add(): absent or {} leaves both fields undefined.
NoOpt == [qos |-> Undefined, retain |-> Undefined]

\* The (payload, opt) arguments add() is called with.
Calls ==
    { [payload |-> "1", opt |-> [qos |-> Undefined, retain |-> "true"]],
      [payload |-> "2", opt |-> NoOpt],
      [payload |-> "1", opt |-> [qos |-> "1", retain |-> "false"]] }

\* No message: the undefined that queue.shift() returns on an empty array.
NoMsg == [id |-> 0, mqttTopic |-> "", mqttMessage |-> "", qos |-> Undefined, retain |-> Undefined]

\* ------------------------------------------------------------------ state
VARIABLES
    queue,       \* this.queue: array of Message objects (each with its identity id)
    messages,    \* this.messages: Map topic -> Message (0: no entry), by identity
    running,     \* this.running
    processing,  \* this._processing
    loops,       \* the suspended process() invocations: <<[pc, msg]>>
    registered,  \* mqttClient.isRegistered()
    nextId,      \* identity of the next Message constructed
    published,   \* history: the mqttClient.publish(message) calls made by send(),
                 \* in order, as <<[id, mqttTopic]>>
    sent,        \* history: the Message as it was handed to the publish call that
                 \* is in flight (NoMsg once it settled)
    settled,     \* history: the last publish that settled, [id, outcome]
    lastAdd,     \* history: per topic, the arguments of the last accepted add()
                 \* while it is pending, and whether the topic is in flight or
                 \* was cancelled
    tainted,     \* history: topics removed while live since the last clear()
    revoked,     \* history: the Messages with a smaller identity were constructed
                 \* before the last unregistered notification
    appPc,       \* where the pending MQTTHub.start() is suspended ("idle": none)
    settings,    \* this.settings: [protocol, broadcastSystemState]
    protocol,    \* this.protocol
    commandHandler,           \* this.commandHandler is set
    homieDispatcher,          \* this.homieDispatcher is set
    homeAssistantDispatcher,  \* this.homeAssistantDispatcher is set
    systemStateDispatcher,    \* this.systemStateDispatcher is set
    deviceManager,            \* this.deviceManager is set
    lifecycle,   \* history: "stopped", "starting" or "running"
    steps        \* history: the calls made by the last run of start() or stop()

qvars == <<queue, messages, running, processing, loops, registered, nextId,
           published, sent, settled, lastAdd, tainted, revoked>>

appVars == <<appPc, settings, protocol, commandHandler, homieDispatcher,
             homeAssistantDispatcher, systemStateDispatcher, deviceManager,
             lifecycle, steps>>

vars == <<queue, messages, running, processing, loops, registered, nextId,
          published, sent, settled, lastAdd, tainted, revoked,
          appPc, settings, protocol, commandHandler, homieDispatcher,
          homeAssistantDispatcher, systemStateDispatcher, deviceManager,
          lifecycle, steps>>

\* ------------------------------------------------------------------ Message
\* new Message(topic, payload, qos, retain): qos is defaulted when absent.
NewMessage(id, topic, payload, qos, retain) ==
    [id |-> id, mqttTopic |-> topic, mqttMessage |-> payload,
     qos |-> IF qos = Undefined THEN "0" ELSE qos, retain |-> retain]

\* ------------------------------------------------------------------ helpers
NoAdd == [st |-> "none", mqttMessage |-> "", qos |-> Undefined, retain |-> Undefined,
          coalesced |-> FALSE]

EmptyMap == [t \in Topics |-> 0]

\* The history entry of a message handed to mqttClient.publish.
Sent(msg) == [id |-> msg.id, mqttTopic |-> msg.mqttTopic]

\* this.messages.has(topic)
Has(live, topic) == live[topic] # 0

\* Mutant of GetNextMessage: the front entry is returned without the live check.
GetNextMessageNoSkip(q, live) ==
    IF q = <<>> THEN [msg |-> NoMsg, queue |-> <<>>]
    ELSE [msg |-> Head(q), queue |-> Tail(q)]

\* Mutant of GetNextMessage: the last live entry is taken, not the first.
GetNextMessageFromBack(q, live) ==
    LET ks == {k \in DOMAIN q : Has(live, q[k].mqttTopic)} IN
    IF ks = {} THEN [msg |-> NoMsg, queue |-> <<>>]
    ELSE LET k == CHOOSE k \in ks : \A j \in ks : j <= k
         IN [msg |-> q[k], queue |-> SubSeq(q, 1, k - 1)]

\* _getNextMessage(): shift entries until one whose topic is in the live map.
RECURSIVE GetNextMessage(_, _)
GetNextMessage(q, live) ==
    IF q = <<>> THEN [msg |-> NoMsg, queue |-> <<>>]
    ELSE IF Has(live, Head(q).mqttTopic) THEN [msg |-> Head(q), queue |-> Tail(q)]
    ELSE GetNextMessage(Tail(q), live)

\* Mutant of LoopIter: next() leaves the Message in the live map while it is
\* being published.
LoopIterKeepsLive(q, live, pub, old, run, reg) ==
    IF run /\ reg /\ Len(q) > 0
    THEN LET nx == GetNextMessage(q, live) IN
         IF nx.msg.id # 0
         THEN [queue |-> nx.queue,
               messages |-> live,
               published |-> Append(pub, Sent(nx.msg)),
               sent |-> nx.msg, thrown |-> FALSE,
               loop |-> <<[pc |-> "send", msg |-> nx.msg.id]>>]
         ELSE [queue |-> nx.queue, messages |-> live, published |-> pub,
               sent |-> old, thrown |-> FALSE, loop |-> <<[pc |-> "yield", msg |-> 0]>>]
    ELSE [queue |-> q, messages |-> live, published |-> pub, sent |-> old,
          thrown |-> FALSE, loop |-> <<>>]

\* One pass of process()'s while loop, from its condition to the next await:
\* the condition, next() up to the publish call made by send().
\* loop is <<>> when the condition is false (the loop exits).
LoopIter(q, live, pub, old, run, reg) ==
    IF run /\ reg /\ Len(q) > 0
    THEN LET nx == GetNextMessage(q, live) IN
         IF nx.msg.id # 0
         THEN [queue |-> nx.queue,
               messages |-> [live EXCEPT ![nx.msg.mqttTopic] = 0],
               published |-> Append(pub, Sent(nx.msg)),
               sent |-> nx.msg, thrown |-> FALSE,
               loop |-> <<[pc |-> "send", msg |-> nx.msg.id]>>]
         ELSE [queue |-> nx.queue, messages |-> live, published |-> pub,
               sent |-> old, thrown |-> FALSE, loop |-> <<[pc |-> "yield", msg |-> 0]>>]
    ELSE [queue |-> q, messages |-> live, published |-> pub, sent |-> old,
          thrown |-> FALSE, loop |-> <<>>]

\* A failure that escapes every catch of send(), next() and process(): the
\* process() invocation ends at the throw, before `this._processing = false`.
Thrown(q, live, pub) ==
    [queue |-> q, messages |-> live, published |-> pub, sent |-> NoMsg,
     thrown |-> TRUE, loop |-> <<>>]

\* Mutant of SendCaught: a failed publish escapes the catch blocks.
SendRethrows(outcome) == outcome = "ok"

\* send(): try { await publish } catch: a failed publish is logged, not rethrown.
SendCaught(outcome) == outcome \in {"ok", "fail"}

\* Mutant of ProcessExit: the flag is not cleared when the loop exits.
ProcessExitStuck(flag) == flag

\* this._processing = false, the last statement of process().
ProcessExit(flag) == FALSE

\* this._processing once the pass r is done: untouched while the loop goes on
\* and when a throw skipped the last statement.
ProcessingAfter(r, flag) ==
    IF r.loop # <<>> \/ r.thrown THEN flag ELSE ProcessExit(flag)

\* Mutant of ProcessingGuard: process() has no reentrancy guard.
ProcessingGuardOff(flag) == FALSE

\* if (this._processing) return;
ProcessingGuard(flag) == flag

\* History update: the publish of topic t settled.
MarkSettled(la, t) ==
    IF la[t].st = "sent" THEN [la EXCEPT ![t] = NoAdd] ELSE la

\* History update: a topic whose message was handed to publish becomes "sent".
MarkSent(la, pubOld, pubNew) ==
    IF Len(pubNew) > Len(pubOld)
    THEN LET t == pubNew[Len(pubNew)].mqttTopic IN
         [la EXCEPT ![t] = [NoAdd EXCEPT !.st = "sent", !.coalesced = la[t].coalesced]]
    ELSE la

\* process() called with the queue fields q, live and running flag run.
Process(q, live, run, la) ==
    IF ProcessingGuard(processing)
    THEN /\ queue' = q
         /\ messages' = live
         /\ UNCHANGED <<processing, loops, published, sent>>
         /\ lastAdd' = la
    ELSE LET r == LoopIter(q, live, published, sent, run, registered) IN
         /\ queue' = r.queue
         /\ messages' = r.messages
         /\ published' = r.published
         /\ sent' = r.sent
         /\ loops' = loops \o r.loop
         /\ processing' = ProcessingAfter(r, TRUE)
         /\ lastAdd' = MarkSent(la, published, r.published)

RemoveAt(s, i) == SubSeq(s, 1, i - 1) \o SubSeq(s, i + 1, Len(s))

\* ------------------------------------------------------------------ MessageQueue
\* Mutant of Overwrite: a retain flag given earlier survives an add() without one.
OverwriteKeepsRetain(message, payload, opt) ==
    [message EXCEPT !.mqttMessage = payload, !.qos = opt.qos,
                    !.retain = IF opt.retain = Undefined THEN message.retain ELSE opt.retain]

\* add(), the topic has a live Message: it is mutated in place.
Overwrite(message, payload, opt) ==
    [message EXCEPT !.mqttMessage = payload, !.qos = opt.qos, !.retain = opt.retain]

\* Mutant of Accepts: add() does not ask whether the Publisher is registered.
AcceptsUnregistered(reg, topic) == topic # ""

\* if (this.mqttClient.isRegistered() && topic)
Accepts(reg, topic) == reg /\ topic # ""

\* add(topic, payload, opt, process)
Add(topic, payload, opt, process) ==
    IF Accepts(registered, topic)
    THEN LET existing == messages[topic]
             q1 == IF existing = 0
                   THEN Append(queue, NewMessage(nextId, topic, payload, opt.qos, opt.retain))
                   ELSE [i \in DOMAIN queue |->
                            IF queue[i].id = existing
                            THEN Overwrite(queue[i], payload, opt)
                            ELSE queue[i]]
             live1 == IF existing = 0 THEN [messages EXCEPT ![topic] = nextId] ELSE messages
             la1 == [lastAdd EXCEPT ![topic] =
                        [st |-> "pending", mqttMessage |-> payload,
                         qos |-> opt.qos, retain |-> opt.retain,
                         coalesced |-> (existing # 0)]]
         IN /\ existing = 0 => nextId <= MaxMsgs
            /\ nextId' = IF existing = 0 THEN nextId + 1 ELSE nextId
            /\ IF process
               THEN Process(q1, live1, running, la1)
               ELSE /\ queue' = q1
                    /\ messages' = live1
                    /\ lastAdd' = la1
                    /\ UNCHANGED <<processing, loops, published, sent>>
            /\ UNCHANGED <<running, registered, settled, tainted, revoked>>
            /\ UNCHANGED appVars
    ELSE UNCHANGED vars

\* remove(topic)
Remove(topic) ==
    /\ messages' = [messages EXCEPT ![topic] = 0]
    /\ tainted' = IF messages[topic] # 0 THEN tainted \cup {topic} ELSE tainted
    /\ lastAdd' = IF messages[topic] # 0
                  THEN [lastAdd EXCEPT ![topic] = [NoAdd EXCEPT !.st = "cancelled"]]
                  ELSE lastAdd
    /\ UNCHANGED <<queue, running, processing, loops, registered, nextId,
                   published, sent, settled, revoked>>
    /\ UNCHANGED appVars

\* The continuation of process() after `await this.next()` when send() was
\* awaiting mqttClient.publish: the publish settled with outcome.
PublishSettle(i, outcome) ==
    /\ i \in DOMAIN loops
    /\ loops[i].pc = "send"
    /\ settled' = [id |-> loops[i].msg, outcome |-> outcome]
    /\ LET r == IF SendCaught(outcome)
                THEN LoopIter(queue, messages, published, NoMsg, running, registered)
                ELSE Thrown(queue, messages, published)
       IN /\ queue' = r.queue
          /\ messages' = r.messages
          /\ published' = r.published
          /\ sent' = r.sent
          /\ loops' = RemoveAt(loops, i) \o r.loop
          /\ processing' = ProcessingAfter(r, processing)
          /\ lastAdd' = MarkSent(MarkSettled(lastAdd, sent.mqttTopic), published, r.published)
    /\ UNCHANGED <<running, registered, nextId, tainted, revoked>>
    /\ UNCHANGED appVars

\* The continuation of process() after `await this.next()` when next() found
\* no live message (nothing was published).
Resume(i) ==
    /\ i \in DOMAIN loops
    /\ loops[i].pc = "yield"
    /\ LET r == LoopIter(queue, messages, published, sent, running, registered)
       IN /\ queue' = r.queue
          /\ messages' = r.messages
          /\ published' = r.published
          /\ sent' = r.sent
          /\ loops' = RemoveAt(loops, i) \o r.loop
          /\ processing' = ProcessingAfter(r, processing)
          /\ lastAdd' = MarkSent(lastAdd, published, r.published)
    /\ UNCHANGED <<running, registered, nextId, settled, tainted, revoked>>
    /\ UNCHANGED appVars

\* start()
Start ==
    /\ running' = TRUE
    /\ Process(queue, messages, TRUE, lastAdd)
    /\ UNCHANGED <<registered, nextId, settled, tainted, revoked>>
    /\ UNCHANGED appVars

\* Mutant of Stop: stopping also drops what is pending.
StopDropsPending ==
    /\ running' = FALSE
    /\ queue' = <<>>
    /\ UNCHANGED <<messages, processing, loops, registered, nextId,
                   published, sent, settled, lastAdd, tainted, revoked>>
    /\ UNCHANGED appVars

\* stop()
Stop ==
    /\ running' = FALSE
    /\ UNCHANGED <<queue, messages, processing, loops, registered, nextId,
                   published, sent, settled, lastAdd, tainted, revoked>>
    /\ UNCHANGED appVars

\* History update of clear(): pending adds are dropped.
Dropped(la) ==
    [t \in Topics |-> IF la[t].st = "pending" THEN NoAdd ELSE la[t]]

\* Mutant of Clear: only the array is emptied, the live map is kept.
ClearQueueOnly ==
    /\ queue' = <<>>
    /\ tainted' = {}
    /\ lastAdd' = Dropped(lastAdd)
    /\ UNCHANGED <<messages, running, processing, loops, registered, nextId,
                   published, sent, settled, revoked>>
    /\ UNCHANGED appVars

\* clear()
Clear ==
    /\ queue' = <<>>
    /\ messages' = EmptyMap
    /\ tainted' = {}
    /\ lastAdd' = Dropped(lastAdd)
    /\ UNCHANGED <<running, processing, loops, registered, nextId, published,
                   sent, settled, revoked>>
    /\ UNCHANGED appVars

\* destroy()
Destroy ==
    /\ running' = FALSE
    /\ queue' = <<>>
    /\ messages' = EmptyMap
    /\ tainted' = {}
    /\ lastAdd' = Dropped(lastAdd)
    /\ UNCHANGED <<processing, loops, registered, nextId, published, sent, settled,
                   revoked>>
    /\ UNCHANGED appVars

\* ------------------------------------------------------------------ Publisher
\* Mutant of Unregister: the constructor made no onUnRegistered subscription.
UnregisterKeepsQueue ==
    /\ registered
    /\ registered' = FALSE
    /\ revoked' = nextId
    /\ UNCHANGED <<queue, messages, tainted, lastAdd>>
    /\ UNCHANGED <<running, processing, loops, nextId, published, sent, settled>>
    /\ UNCHANGED appVars

\* The Publisher's registration is revoked: isRegistered() turns false and the
\* onUnRegistered subscription made by the constructor runs clear().
Unregister ==
    /\ registered
    /\ registered' = FALSE
    /\ queue' = <<>>
    /\ messages' = EmptyMap
    /\ tainted' = {}
    /\ lastAdd' = Dropped(lastAdd)
    /\ revoked' = nextId
    /\ UNCHANGED <<running, processing, loops, nextId, published, sent, settled>>
    /\ UNCHANGED appVars

\* The Publisher becomes registered with the broker.
Register ==
    /\ ~registered
    /\ registered' = TRUE
    /\ UNCHANGED <<queue, messages, running, processing, loops, nextId,
                   published, sent, settled, lastAdd, tainted, revoked>>
    /\ UNCHANGED appVars

\* ------------------------------------------------------------------ specification
\* The settings the application may have been configured with.
Settings == [protocol : {Undefined, "custom"}, broadcastSystemState : BOOLEAN]

\* onInit() up to `await this.start()`: nothing is started yet.
AppInit(s) ==
    /\ appPc = "idle"
    /\ settings = s
    /\ protocol = Undefined
    /\ commandHandler = FALSE
    /\ homieDispatcher = FALSE
    /\ homeAssistantDispatcher = FALSE
    /\ systemStateDispatcher = FALSE
    /\ lifecycle = "stopped"
    /\ steps = <<>>

\* constructor(mqttClient)
QueueInit ==
    /\ queue = <<>>
    /\ messages = EmptyMap
    /\ running = TRUE
    /\ processing = FALSE
    /\ loops = <<>>
    /\ registered \in BOOLEAN
    /\ nextId = 1
    /\ published = <<>>
    /\ sent = NoMsg
    /\ settled = [id |-> 0, outcome |-> "none"]
    /\ lastAdd = [t \in Topics |-> NoAdd]
    /\ tainted = {}
    /\ revoked = 1

\* The queue on its own: the application around it does not act.
Init ==
    /\ QueueInit
    /\ AppInit([protocol |-> Undefined, broadcastSystemState |-> FALSE])
    /\ deviceManager = TRUE

Next ==
    \/ \E t \in Topics, c \in Calls, pr \in BOOLEAN : Add(t, c.payload, c.opt, pr)
    \/ \E t \in Topics : Remove(t)
    \/ \E i \in 1..2, oc \in {"ok", "fail"} : PublishSettle(i, oc)
    \/ \E i \in 1..2 : Resume(i)
    \/ Start
    \/ Stop
    \/ Clear
    \/ Destroy
    \/ Unregister
    \/ Register

Spec == Init /\ [][Next]_vars

\* ------------------------------------------------------------------ MQTTHub
\* start() up to `await this.mqttClient.connect()`.
AppStart ==
    /\ appPc = "idle"
    /\ appPc' = "connect"
    /\ lifecycle' = "starting"
    /\ steps' = <<"connect">>
    /\ UNCHANGED <<settings, protocol, commandHandler, homieDispatcher,
                   homeAssistantDispatcher, systemStateDispatcher, deviceManager>>
    /\ UNCHANGED qvars

\* connect() succeeded (the Publisher is registered): start() goes on with
\* _sendBirthMessage(), _startCommands(), _startBroadcasters() and, when the
\* protocol changed, _stopCommunicationProtocol() and
\* _startCommunicationProtocol() up to `await homeAssistantDispatcher.register()`.
ConnectResolve ==
    /\ appPc = "connect"
    /\ registered' = TRUE
    /\ commandHandler' = TRUE
    /\ systemStateDispatcher' = (systemStateDispatcher \/ settings.broadcastSystemState)
    /\ LET wanted == IF settings.protocol = Undefined THEN "homie3" ELSE settings.protocol
           head == <<"connect", "birth", "startCommands", "startBroadcasters">>
       IN IF protocol # wanted
          THEN /\ protocol' = wanted
               /\ homieDispatcher' = TRUE
               /\ homeAssistantDispatcher' = TRUE
               /\ appPc' = "haRegister"
               /\ lifecycle' = lifecycle
               /\ steps' = head \o <<"stopProtocol", "startProtocol">>
          ELSE /\ UNCHANGED <<protocol, homieDispatcher, homeAssistantDispatcher>>
               /\ appPc' = "idle"
               /\ lifecycle' = "running"
               /\ steps' = head
    /\ UNCHANGED <<settings, deviceManager>>
    /\ UNCHANGED <<queue, messages, running, processing, loops, nextId,
                   published, sent, settled, lastAdd, tainted, revoked>>

\* connect() failed: start() logs the failure and ends.
ConnectReject ==
    /\ appPc = "connect"
    /\ appPc' = "idle"
    /\ lifecycle' = "stopped"
    /\ steps' = <<"connect", "failed">>
    /\ UNCHANGED <<settings, protocol, commandHandler, homieDispatcher,
                   homeAssistantDispatcher, systemStateDispatcher, deviceManager>>
    /\ UNCHANGED qvars

\* homeAssistantDispatcher.register() settled: _startCommunicationProtocol()
\* calls this.homieDispatcher.register(), which throws when stop() deleted the
\* dispatcher meanwhile; start() logs a failure and ends.
HaRegisterSettle(ok) ==
    /\ appPc = "haRegister"
    /\ appPc' = "idle"
    /\ lifecycle' = IF ok /\ homieDispatcher THEN "running" ELSE "stopped"
    /\ steps' = Append(steps, IF ok /\ homieDispatcher THEN "registered" ELSE "failed")
    /\ UNCHANGED <<settings, protocol, commandHandler, homieDispatcher,
                   homeAssistantDispatcher, systemStateDispatcher, deviceManager>>
    /\ UNCHANGED qvars

\* stop(): _sendLastWillMessage(), mqttClient.disconnect(), _stopCommands(),
\* _stopBroadcasters(), _stopCommunicationProtocol(), delete this.protocol.
\* _stopBroadcasters() reads this.systemStateDispatcher.broadcast under the
\* test of this.homeAssistantDispatcher and throws when only the latter is set.
\* unregisters: whether disconnect() revokes the registration (and so runs the
\* queue's clear()) before it returns.
AppStop(unregisters) ==
    /\ commandHandler' = FALSE
    /\ IF homeAssistantDispatcher /\ ~systemStateDispatcher
       THEN /\ steps' = <<"lastWill", "disconnect", "stopCommands", "stopBroadcasters",
                          "thrown">>
            /\ UNCHANGED <<protocol, homieDispatcher, homeAssistantDispatcher,
                           systemStateDispatcher, lifecycle>>
       ELSE /\ steps' = <<"lastWill", "disconnect", "stopCommands", "stopBroadcasters",
                          "stopProtocol", "stopped">>
            /\ systemStateDispatcher' = FALSE
            /\ homieDispatcher' = IF protocol # Undefined THEN FALSE ELSE homieDispatcher
            /\ homeAssistantDispatcher' =
                    IF protocol # Undefined THEN FALSE ELSE homeAssistantDispatcher
            /\ protocol' = Undefined
            /\ lifecycle' = "stopped"
    /\ IF unregisters /\ registered
       THEN /\ registered' = FALSE
            /\ queue' = <<>>
            /\ messages' = EmptyMap
            /\ tainted' = {}
            /\ lastAdd' = Dropped(lastAdd)
            /\ revoked' = nextId
       ELSE UNCHANGED <<registered, queue, messages, tainted, lastAdd, revoked>>
    /\ UNCHANGED <<appPc, settings, deviceManager>>
    /\ UNCHANGED <<running, processing, loops, nextId, published, sent, settled>>

\* The topics that the topic registry holds for the one device of the model.
DeviceTopics == {"a"}

\* settingsChanged(): the settings are read anew (to s); deviceChanges stays
\* null when there is no device manager, and `deviceChanges.disabled` then
\* throws into the catch block, before start() is called. Otherwise
\* topicsRegistry.remove() cancels the topics of the device when it is newly
\* disabled, and start() runs up to `await this.mqttClient.connect()`.
SettingsChanged(s, disabled) ==
    /\ appPc = "idle"
    /\ settings' = s
    /\ IF ~deviceManager
       THEN /\ steps' = <<"settingsChanged", "failed">>
            /\ UNCHANGED <<appPc, lifecycle, messages, tainted, lastAdd>>
       ELSE /\ appPc' = "connect"
            /\ lifecycle' = "starting"
            /\ steps' = <<"settingsChanged", "connect">>
            /\ messages' = [t \in Topics |->
                                IF disabled /\ t \in DeviceTopics THEN 0 ELSE messages[t]]
            /\ tainted' = IF disabled
                          THEN tainted \cup {t \in DeviceTopics : messages[t] # 0}
                          ELSE tainted
            /\ lastAdd' = [t \in Topics |->
                                IF disabled /\ t \in DeviceTopics /\ messages[t] # 0
                                THEN [NoAdd EXCEPT !.st = "cancelled"]
                                ELSE lastAdd[t]]
    /\ UNCHANGED <<protocol, commandHandler, homieDispatcher, homeAssistantDispatcher,
                   systemStateDispatcher, deviceManager>>
    /\ UNCHANGED <<queue, running, processing, loops, registered, nextId,
                   published, sent, settled, revoked>>

\* The application: lifecycle start() and stop() around the queue, fed by the
\* event sources (add), the topic registry (remove) and the Publisher.
\* onInit() may have ended at a failure before it made the device manager.
InitApp ==
    /\ QueueInit
    /\ ~registered
    /\ deviceManager \in BOOLEAN
    /\ \E s \in Settings : AppInit(s)

NextApp ==
    \/ AppStart
    \/ ConnectResolve
    \/ ConnectReject
    \/ \E ok \in BOOLEAN : HaRegisterSettle(ok)
    \/ \E u \in BOOLEAN : AppStop(u)
    \/ \E s \in Settings, d \in BOOLEAN : SettingsChanged(s, d)
    \/ \E t \in {"a", "b"}, pr \in BOOLEAN : Add(t, "2", NoOpt, pr)
    \/ Remove("a")
    \/ \E i \in 1..2, oc \in {"ok", "fail"} : PublishSettle(i, oc)
    \/ \E i \in 1..2 : Resume(i)
    \/ Unregister

SpecApp == InitApp /\ [][NextApp]_vars

\* The queue under one kind of add() call, with fairness: a publish call that
\* was issued settles, and the continuation of a suspended process() runs;
\* calls made by the environment are not fair.
NextLive ==
    \/ \E t \in Topics, pr \in BOOLEAN : Add(t, "2", NoOpt, pr)
    \/ \E t \in Topics : Remove(t)
    \/ \E i \in 1..2, oc \in {"ok", "fail"} : PublishSettle(i, oc)
    \/ \E i \in 1..2 : Resume(i)
    \/ Start
    \/ Stop
    \/ Clear
    \/ Destroy
    \/ Unregister
    \/ Register

SpecLive ==
    /\ Init
    /\ [][NextLive]_vars
    /\ WF_vars(\E i \in 1..2, oc \in {"ok", "fail"} : PublishSettle(i, oc))
    /\ WF_vars(\E i \in 1..2 : Resume(i))

\* ------------------------------------------------------------------ properties
RealTopics == Topics \ {""}

\* This step handed a Message to mqttClient.publish.
PublishedNow == Len(published') > Len(published)

\* This step is an accepted add() on topic t.
AddedNow(t) ==
    /\ registered
    /\ \E c \in Calls, pr \in BOOLEAN : Add(t, c.payload, c.opt, pr)

\* Message m carries what an add() call gave: the payload, and the qos and
\* retain where given; where not given, nothing but the constructor's default.
Carries(m, payload, qos, retain) ==
    /\ m.mqttMessage = payload
    /\ IF qos = Undefined THEN m.qos \in {Undefined, "0"} ELSE m.qos = qos
    /\ IF retain = Undefined THEN m.retain \in {Undefined, "false"} ELSE m.retain = retain

Ids(seq) == {seq[k].id : k \in DOMAIN seq}

\* C1: enqueues of one topic made before the drain loop dequeues it (no cancel
\* of the topic since the last reset) lead to one publish, and it carries the
\* payload, qos and retain of the last of them: a publish of topic t issued in
\* an add(t, ...) step carries that call's arguments; any other publish of t
\* has an unpublished enqueue of t behind it and carries the last one's
\* arguments.
C1_LastEnqueueWins ==
    [][PublishedNow =>
        LET t == sent'.mqttTopic IN
        t \notin tainted =>
            IF AddedNow(t)
            THEN \A c \in Calls, pr \in BOOLEAN :
                    Add(t, c.payload, c.opt, pr)
                        => Carries(sent', c.payload, c.opt.qos, c.opt.retain)
            ELSE /\ lastAdd[t].st = "pending"
                 /\ Carries(sent', lastAdd[t].mqttMessage, lastAdd[t].qos, lastAdd[t].retain)
      ]_vars

\* C1 witness: a publish in flight for a topic that was enqueued more than
\* once before it was dequeued, and never cancelled.
C1_Witness ==
    \E t \in RealTopics :
        /\ sent.mqttTopic = t
        /\ lastAdd[t].st = "sent"
        /\ lastAdd[t].coalesced
        /\ t \notin tainted

\* C2 (as claimed): an entry of the pending order whose Message is not the
\* live Message of its topic (it was cancelled) is never handed to publish.
C2_CancelledEntryNeverPublished ==
    [][PublishedNow =>
        \A k \in DOMAIN queue :
            queue[k].id = sent'.id => messages[queue[k].mqttTopic] = queue[k].id
      ]_vars

\* C3: once cancel(t) removed a live topic t, no publish of t is issued
\* unless t is enqueued again.
C3_CancelledNotPublished ==
    [][\A t \in RealTopics :
          (lastAdd[t].st = "cancelled" /\ PublishedNow /\ sent'.mqttTopic = t)
              => AddedNow(t)
      ]_vars

\* C3 witness: the drain loop went over the entry of a cancelled topic and
\* found nothing to publish.
C3_Witness ==
    /\ \E t \in RealTopics : lastAdd[t].st = "cancelled"
    /\ \E i \in DOMAIN loops : loops[i].pc = "yield"
    /\ queue = <<>>

\* C4: at most one drain loop is active and at most one publish made by the
\* queue is in flight; no Message is published twice; and a drain attempt
\* (start() or add()) made while a loop is active dequeues and publishes nothing.
C4_State ==
    /\ Len(loops) <= 1
    /\ Cardinality({i \in DOMAIN loops : loops[i].pc = "send"}) <= 1
    /\ Cardinality(Ids(published)) = Len(published)

C4_SingleDrain ==
    /\ []C4_State
    /\ [][(loops # <<>> /\ (Start \/ \E t \in RealTopics : AddedNow(t)))
            => /\ published' = published
               /\ loops' = loops
               /\ Len(queue') >= Len(queue)
               /\ Ids(queue) \subseteq Ids(queue')
         ]_vars

\* C4 witness: a publish is in flight and two more Messages wait behind it.
C4_Witness ==
    /\ Len(loops) = 1
    /\ loops[1].pc = "send"
    /\ processing
    /\ Len(queue) >= 2

\* The first entry of q whose topic is live (0 when none).
FirstLive(q, live) == GetNextMessage(q, live).msg.id

\* C5: when a publish fails while the queue is running, the Publisher is
\* registered and another live topic is pending, the same drain publishes
\* that topic next; the failed Message is not requeued: it is in neither the
\* pending order nor the live set, and was published once.
C5_FailureDoesNotStopDrain ==
    [][\A i \in 1..2 :
          (PublishSettle(i, "fail") /\ running /\ registered /\ FirstLive(queue, messages) # 0)
              => /\ PublishedNow
                 /\ sent'.id = FirstLive(queue, messages)
                 /\ processing'
                 /\ Len(loops') = 1
                 /\ loops[i].msg \notin Ids(queue')
                 /\ \A t \in Topics : messages'[t] # loops[i].msg
                 /\ Cardinality({k \in DOMAIN published' : published'[k].id = loops[i].msg}) = 1
      ]_vars

\* C5 witness: the last publish failed and the next one, of another topic, is
\* in flight.
C5_Witness ==
    /\ settled.outcome = "fail"
    /\ Len(published) >= 2
    /\ published[Len(published) - 1].id = settled.id
    /\ published[Len(published)].mqttTopic # published[Len(published) - 1].mqttTopic
    /\ sent.id = published[Len(published)].id
    /\ \E i \in DOMAIN loops : loops[i].pc = "send" /\ loops[i].msg = sent.id

\* What add(t, p, o) with its drain attempt publishes on a newly constructed
\* queue (running, no loop active) whose next Message has identity id.
FreshPublish(id, t, p, o) ==
    LoopIter(<<NewMessage(id, t, p, o.qos, o.retain)>>, [EmptyMap EXCEPT ![t] = id],
             <<>>, NoMsg, TRUE, TRUE).sent

\* This step is add(t, p, o) with its drain attempt and publishes what the
\* same call publishes on a newly constructed queue.
LikeFresh(t, p, o) ==
    /\ PublishedNow
    /\ Len(published') = Len(published) + 1
    /\ sent' = FreshPublish(nextId, t, p, o)

\* A reset emptied the pending order: a constructed Message is neither
\* published nor queued, and none was skipped as cancelled since.
ResetHappened ==
    /\ tainted = {}
    /\ \E id \in 1..(nextId - 1) : id \notin Ids(published) \cup Ids(queue)

\* C6 (as claimed): after reset(), in whatever state it was called, the live
\* set and the pending order are empty and an enqueue with its drain attempt
\* publishes what it publishes on a newly constructed queue (stated for the
\* states in which a reset dropped a Message and nothing is pending since).
C6_ResetLikeNew ==
    [][/\ Clear => (queue' = <<>> /\ messages' = EmptyMap)
       /\ \A t \in RealTopics, c \in Calls :
            (/\ ResetHappened
             /\ queue = <<>> /\ messages = EmptyMap /\ registered
             /\ Add(t, c.payload, c.opt, TRUE))
                => LikeFresh(t, c.payload, c.opt)
      ]_vars

\* C6 (amended): reset() empties the live set and the pending order and
\* leaves running and the draining flag as they are; on a queue that is
\* running with no drain loop active, an enqueue with its drain attempt then
\* publishes what it publishes on a newly constructed queue.
C6_ResetLikeNewWhenIdle ==
    [][/\ Clear => (queue' = <<>> /\ messages' = EmptyMap /\ running' = running
                    /\ processing' = processing)
       /\ \A t \in RealTopics, c \in Calls :
            (queue = <<>> /\ messages = EmptyMap /\ registered /\ running
             /\ ~processing /\ Add(t, c.payload, c.opt, TRUE))
                => LikeFresh(t, c.payload, c.opt)
      ]_vars

\* C6 witness: the first Message was dropped by a reset and the next one,
\* enqueued after it, is in flight.
C6_Witness ==
    /\ ResetHappened
    /\ published = <<[id |-> 2, mqttTopic |-> sent.mqttTopic]>>
    /\ sent.id = 2
    /\ nextId = 3
    /\ queue = <<>>

\* Topic t left the live set: published, cancelled or dropped by a reset.
Left(t) == lastAdd[t].st # "pending"

\* C7 (as claimed): every topic that entered the live set is eventually
\* published (or cancelled, or reset, or the queue stops running, or the
\* Publisher loses its registration), whether or not the enqueue suppressed
\* the drain attempt.
C7_EveryLiveTopicPublished ==
    \A t \in RealTopics :
        (lastAdd[t].st = "pending") ~> (Left(t) \/ ~running \/ ~registered)

\* C7 (amended): a drain attempt (start(), or an add() that does not suppress
\* it) on a running queue with a registered Publisher leaves a drain loop
\* active whenever a topic is pending; a publish of a topic is issued only
\* for an enqueue of it not yet published; and a topic pending while a drain
\* loop is active is eventually published (or cancelled, reset, or the queue
\* stops running or the Publisher loses its registration).
C7_PublishedOnceDrainAttempted ==
    /\ [][((Start \/ \E t \in RealTopics : Add(t, "2", NoOpt, TRUE))
           /\ registered /\ running')
            => \A u \in RealTopics : lastAdd'[u].st = "pending" => processing'
         ]_vars
    /\ [][\A t \in RealTopics :
            (PublishedNow /\ sent'.mqttTopic = t /\ ~AddedNow(t)) => lastAdd[t].st = "pending"
         ]_vars
    /\ \A t \in RealTopics :
        (lastAdd[t].st = "pending" /\ processing) ~> (Left(t) \/ ~running \/ ~registered)

\* C7 witness: a topic that waited behind another publish is now in flight,
\* issued by the continuation of the drain loop.
C7_Witness ==
    /\ Len(published) >= 2
    /\ settled.id = published[Len(published) - 1].id
    /\ sent.id = published[Len(published)].id
    /\ lastAdd[sent.mqttTopic].st = "sent"
    /\ sent.mqttTopic \notin tainted
    /\ queue = <<>>

\* The place of call c in the last run of start() or stop() (0: not made).
Pos(c) == IF \E k \in DOMAIN steps : steps[k] = c
          THEN CHOOSE k \in DOMAIN steps : steps[k] = c
          ELSE 0

\* C8 (as claimed): no queued state is published between a call of lifecycle
\* start() and the birth message that start() issues once connect succeeded,
\* also when start() is re-run while already running.
C8_BirthBeforeQueuedState ==
    [][PublishedNow => appPc # "connect"]_vars

\* C9 (as claimed): in stop() the last-will publish comes first, then the
\* dispatch components are stopped, then the Publisher is disconnected.
C9_StopOrder ==
    (steps # <<>> /\ steps[1] = "lastWill")
        => /\ Pos("lastWill") < Pos("disconnect")
           /\ \A c \in {"stopCommands", "stopBroadcasters", "stopProtocol"} :
                Pos(c) # 0 => (Pos("lastWill") < Pos(c) /\ Pos(c) < Pos("disconnect"))

\* C10 (as claimed): once lifecycle stop() completed, and until the next
\* lifecycle start(), the queue is paused; after lifecycle start() it runs.
C10_StopPausesQueue ==
    /\ (steps # <<>> /\ steps[Len(steps)] = "stopped") => ~running
    /\ lifecycle = "running" => running

\* C11 (as claimed): whenever lifecycle stop() ends, in whatever state it was
\* called, it ran to its end with no failure escaping, and the command
\* handler and both protocol dispatchers are destroyed and the protocol unset.
C11_StopCompletesCleanup ==
    (steps # <<>> /\ steps[1] = "lastWill")
        => /\ steps[Len(steps)] = "stopped"
           /\ ~commandHandler
           /\ ~homieDispatcher
           /\ ~homeAssistantDispatcher
           /\ protocol = Undefined

\* C12: the unregistered notification resets the queue (live set and pending
\* order both empty); afterwards every Message handed to publish was
\* constructed after the notification, whatever add(), start() and
\* registration follow; the notification leaves the publish in flight alone.
C12_NoReplayAfterUnregistered ==
    /\ [][Unregister => /\ queue' = <<>>
                        /\ messages' = EmptyMap
                        /\ sent' = sent
                        /\ loops' = loops
                        /\ published' = published
         ]_vars
    /\ [][PublishedNow => sent'.id >= revoked]_vars
    /\ [](\A k \in DOMAIN queue : queue[k].id >= revoked)

\* C12 witness: a Message enqueued before the notification was dropped by it,
\* and after a new registration a Message enqueued since is in flight.
C12_Witness ==
    /\ revoked > 1
    /\ registered
    /\ (revoked - 1) \notin Ids(published)
    /\ sent.id >= revoked
    /\ \E i \in DOMAIN loops : loops[i].pc = "send" /\ loops[i].msg = sent.id

\* C13: queue stop() changes neither the pending order nor the live set nor
\* the publish in flight; while the queue is stopped no step but start()
\* hands a Message to publish, and the publish in flight still settles;
\* start() sets running and leaves a drain loop active whenever a topic is
\* pending, and that loop publishes every pending topic (unless it is
\* cancelled or reset, or the queue is stopped again, or the registration is
\* lost meanwhile).
C13_StopPausesStartDrains ==
    /\ [][Stop => /\ ~running'
                  /\ queue' = queue
                  /\ messages' = messages
                  /\ loops' = loops
                  /\ sent' = sent
                  /\ published' = published
         ]_vars
    /\ [][(~running /\ PublishedNow) => Start]_vars
    /\ [](~running => \A i \in DOMAIN loops :
                        loops[i].pc = "send" => ENABLED PublishSettle(i, "ok"))
    /\ [][Start => /\ running'
                   /\ \A t \in RealTopics :
                        (registered /\ lastAdd'[t].st = "pending") => processing'
         ]_vars
    /\ \A t \in RealTopics :
        (running /\ processing /\ lastAdd[t].st = "pending")
            ~> (Left(t) \/ ~running \/ ~registered)

\* C13 witness: the queue was stopped while a publish was in flight and a
\* topic was pending behind it; the publish settled and nothing new was
\* published.
C13_Witness ==
    /\ ~running
    /\ registered
    /\ loops = <<>>
    /\ ~processing
    /\ sent = NoMsg
    /\ settled.id # 0
    /\ settled.id = published[Len(published)].id
    /\ \E t \in RealTopics : lastAdd[t].st = "pending" /\ t \notin tainted

\* C14: add() with an empty topic, or while the Publisher is not registered,
\* changes nothing: the live set, the pending order, the running flag and the
\* draining flag stay as they are, no drain loop is started and nothing is
\* handed to publish.
C14_RejectedEnqueueIsNoOp ==
    \A t \in Topics, c \in Calls, pr \in BOOLEAN :
        (t = "" \/ ~registered)
            => ~ENABLED (/\ Add(t, c.payload, c.opt, pr)
                         /\ \/ messages' # messages
                            \/ queue' # queue
                            \/ running' # running
                            \/ processing' # processing
                            \/ loops' # loops
                            \/ published' # published
                            \/ nextId' # nextId)

\* C14 witness: the Publisher lost its registration on a running queue that
\* had Messages before; every add() made here is rejected.
C14_Witness ==
    /\ ~registered
    /\ running
    /\ nextId > 1
    /\ \A t \in Topics, c \in Calls, pr \in BOOLEAN :
            ENABLED (Add(t, c.payload, c.opt, pr) /\ UNCHANGED vars)

\* The Message with identity id after this step: the one handed to publish
\* in this step, or the entry of the pending order.
MessageAfter(id) ==
    IF PublishedNow /\ sent'.id = id
    THEN sent'
    ELSE LET k == CHOOSE k \in DOMAIN queue' : queue'[k].id = id IN queue'[k]

\* C15 (as claimed): a topic enqueued with payload "1" and {retain: true} and
\* then, before the drain loop dequeued it, with payload "2" and no options
\* is published as one Message with payload "2" and retain true: after the
\* second add() the one Message of the topic carries payload "2", retain true.
C15_RetainSurvivesReenqueue ==
    [][\A t \in RealTopics, pr \in BOOLEAN :
          (/\ registered
           /\ messages[t] # 0
           /\ \E k \in DOMAIN queue :
                /\ queue[k].id = messages[t]
                /\ queue[k].mqttMessage = "1"
                /\ queue[k].retain = "true"
           /\ Add(t, "2", NoOpt, pr))
              => /\ nextId' = nextId
                 /\ MessageAfter(messages[t]).mqttTopic = t
                 /\ MessageAfter(messages[t]).mqttMessage = "2"
                 /\ MessageAfter(messages[t]).retain = "true"
      ]_vars

\* C16 (as claimed): on a registered, running queue with nothing pending and
\* no drain loop active, add(x, v) with default arguments, then remove(x),
\* then process() lead to no publish of x; so the add() itself hands no
\* Message of x to publish, and neither does a remove(x) or a drain attempt
\* that follows while x is cancelled.
C16_EnqueueCancelDrainPublishesNothing ==
    /\ [][\A t \in RealTopics, c \in Calls :
            (/\ registered /\ running /\ ~processing
             /\ queue = <<>> /\ messages = EmptyMap
             /\ Add(t, c.payload, c.opt, TRUE))
                => \A k \in DOMAIN published' :
                        k > Len(published) => published'[k].mqttTopic # t
         ]_vars
    /\ [][\A t \in RealTopics : Remove(t) => published' = published]_vars

\* C17 (as claimed): in every state of the application, a settings update
\* cancels the topics of the newly-disabled device and then runs lifecycle
\* start(): when settingsChanged() reaches its first await, the topics are
\* out of the live set and start() is waiting for connect().
C17_SettingsUpdateCancelsThenStarts ==
    [][\A s \in Settings, d \in BOOLEAN :
          SettingsChanged(s, d)
              => /\ appPc' = "connect"
                 /\ steps' = <<"settingsChanged", "connect">>
                 /\ d => \A t \in DeviceTopics : messages'[t] = 0
      ]_vars

\* The Messages of seq are in the order in which they were constructed, that
\* is, in the order of the first enqueue of each.
InEnqueueOrder(seq) ==
    \A i, j \in DOMAIN seq : i < j => seq[i].id < seq[j].id

\* C18: the publishes are issued in the order of the first enqueue of their
\* Messages and the pending order is kept in that order; a publish leaves no
\* Message behind that was enqueued before the one published; and an entry
\* is added to the pending order, at its end, only for a newly constructed
\* Message of a topic that had no live Message: an add() of a topic that is
\* pending adds no entry and leaves its live Message the same, so the topic
\* keeps its place.
C18_Fifo ==
    /\ [](InEnqueueOrder(published) /\ InEnqueueOrder(queue))
    /\ [][PublishedNow => \A k \in DOMAIN queue' : queue'[k].id > sent'.id]_vars
    /\ [][\A k \in DOMAIN queue' :
            queue'[k].id \notin Ids(queue)
                => /\ queue'[k].id = nextId
                   /\ messages[queue'[k].mqttTopic] = 0
                   /\ k = Len(queue')
         ]_vars
    /\ [][\A t \in RealTopics :
            messages[t] # 0 => messages'[t] \in {0, messages[t]}
         ]_vars

\* C18 witness: a topic that was enqueued again while pending is in flight,
\* and a Message of another topic, enqueued after it, waits behind it.
C18_Witness ==
    /\ lastAdd[sent.mqttTopic].st = "sent"
    /\ lastAdd[sent.mqttTopic].coalesced
    /\ sent.mqttTopic \notin tainted
    /\ queue # <<>>
    /\ queue[1].mqttTopic # sent.mqttTopic
    /\ messages[queue[1].mqttTopic] = queue[1].id
    /\ queue[1].id > sent.id

\* C19: the draining flag is true exactly while a process() invocation is
\* suspended in its loop; a step that ends the loop (nothing pending, queue
\* stopped, Publisher unregistered, or a failed publish) leaves the flag
\* false; and an add() with its drain attempt on a registered, running queue
\* with no loop active starts a loop that publishes.
C19_FlagOnlyWhileDraining ==
    /\ [](processing <=> loops # <<>>)
    /\ [][(loops # <<>> /\ loops' = <<>>) => ~processing']_vars
    /\ [][\A i \in 1..2 : (PublishSettle(i, "fail") /\ loops' = <<>>) => ~processing']_vars
    /\ [][\A t \in RealTopics, c \in Calls :
            (registered /\ running /\ ~processing /\ Add(t, c.payload, c.opt, TRUE))
                => /\ processing'
                   /\ Len(loops') = 1
                   /\ PublishedNow
         ]_vars

\* C19 witness: a drain loop ended after a failed publish (the flag is
\* false, nothing is in flight) on a registered, running queue, where the
\* next add() starts a new one.
C19_Witness ==
    /\ ~processing
    /\ loops = <<>>
    /\ settled.outcome = "fail"
    /\ registered
    /\ running
    /\ ENABLED (Add("a", "2", NoOpt, TRUE) /\ processing')

\* A publish of Message sent is in flight.
InFlight == \E i \in DOMAIN loops : loops[i].pc = "send" /\ loops[i].msg = sent.id

\* C20: while a publish is in flight its Message is neither the live Message
\* of its topic nor an entry of the pending order, so no add() reaches it;
\* an add() of the topic of the Message in flight constructs a new Message
\* for a publish of its own and leaves the one in flight as it was handed
\* over.
C20_InFlightMessageNotModified ==
    /\ [](InFlight => /\ messages[sent.mqttTopic] # sent.id
                      /\ sent.id \notin Ids(queue))
    /\ [][\A c \in Calls, pr \in BOOLEAN :
            (InFlight /\ registered /\ sent.mqttTopic # ""
             /\ Add(sent.mqttTopic, c.payload, c.opt, pr))
                => /\ sent' = sent
                   /\ published' = published
                   /\ (messages[sent.mqttTopic] = 0 =>
                        /\ nextId' = nextId + 1
                        /\ messages'[sent.mqttTopic] = nextId
                        /\ queue'[Len(queue')].id = nextId
                        /\ queue'[Len(queue')].mqttMessage = c.payload)
                   /\ (messages[sent.mqttTopic] # 0 =>
                        /\ messages'[sent.mqttTopic] = messages[sent.mqttTopic]
                        /\ messages[sent.mqttTopic] \in Ids(queue'))
         ]_vars

\* C20 witness: a publish is in flight and a newer Message of the same topic,
\* enqueued meanwhile, is pending behind it.
C20_Witness ==
    /\ InFlight
    /\ messages[sent.mqttTopic] > sent.id
    /\ \E k \in DOMAIN queue :
            /\ queue[k].id = messages[sent.mqttTopic]
            /\ queue[k].mqttTopic = sent.mqttTopic
            /\ queue[k].mqttMessage # sent.mqttMessage

====
